---- MODULE Spec2Model ----
(***************************************************************************)
(* State-machine model of maze_game.py: the main loop of the gesture maze  *)
(* (an iteration is a frame step, lines 117-195, followed by a key step,   *)
(* lines 197-201), DragRect.check_collision, DragCircle.update and         *)
(* reset_game.                                                             *)
(*                                                                         *)
(* Python names bound at module level are the variables.  A name that has  *)
(* not been assigned yet is absent from `defined`; reading it raises       *)
(* NameError, which ends the process (pc = "NameError").  An out-of-range  *)
(* list index raises IndexError (pc = "IndexError").                       *)
(*                                                                         *)
(* Coordinates are the integer pixel coordinates cvzone reports.  For      *)
(* integers d2 < 2^53 and r, the correctly rounded math.sqrt(d2) < r       *)
(* exactly when d2 < r*r, which is how the comparisons are computed here.  *)
(***************************************************************************)
EXTENDS Integers, Sequences, FiniteSets, TLC

VARIABLES
    rectList,       \* list of DragRect: [posCenter, size]
    start_pos,      \* circle.start_pos
    posCenter,      \* circle.posCenter
    radius,         \* circle.radius
    grabbed,        \* circle.grabbed
    finish_pos,
    finish_radius,
    game_over,
    game_won,
    hands,          \* result of detector.findHands for the current frame
    x1, y1, x2, y2, \* finger tip coordinates as last assigned
    cursor,         \* cursor as last assigned
    key,            \* key last read by cv2.waitKey
    defined,        \* names among x1 (with y1, x2, y2) and cursor that have been assigned
    pc,             \* "frame" (top of the loop), "key" (at cv2.waitKey), or how
                    \* the process left the loop
    probe,          \* argument/result record of an isolated check_collision call
    obs             \* history: <<>>, or one frame's state before, input and outcome

vars == <<rectList, start_pos, posCenter, radius, grabbed, finish_pos, finish_radius,
          game_over, game_won, hands, x1, y1, x2, y2, cursor, key, defined,
          pc, probe, obs>>

-----------------------------------------------------------------------------
(* Bounds and input samples *)

\* longest landmark list fed to the loop (the code reads indices 8 and 12 only)
MaxLandmarks == 13

\* largest radius passed to an isolated check_collision call
MaxProbeRadius == 31

\* landmark lists shorter than 9, shorter than 13, and long enough
LmLens == {8, 12} \cup (13..MaxLandmarks)

\* positions of landmark 8 (x, y, z)
TipPoints ==
    { <<640, 360, 0>>,    \* the start position
      <<650, 370, 0>>,    \* strictly inside the player's radius of the start
      <<658, 384, 0>>,    \* at distance exactly 30 of the start
      <<640, 500, 0>>,    \* free corridor
      <<640, 640, 0>>,    \* inside the wall at (600,600)
      <<668, 526, 0>>,    \* at distance exactly 30 of that wall's corner (650,550)
      <<1100, 100, 0>>,   \* the finish centre
      <<1100, 170, 0>>,   \* at distance exactly 70 of the finish centre
      <<1070, 130, 0>> }  \* overlapping the wall at (1000,200) and the finish

\* landmark 12 relative to landmark 8: pinching, and exactly at the threshold
TipOffsets == { <<10, 10>>, <<18, 24>> }

Filler == <<0, 0, 0>>

-----------------------------------------------------------------------------
(* Python helpers *)

\* l[i] for a Python list l held as a sequence
At(l, i) == l[i + 1]

Max(a, b) == IF a >= b THEN a ELSE b

Min(a, b) == IF a <= b THEN a ELSE b

\* (ax - bx) ** 2 + (ay - by) ** 2
Dist2(a, b) == (a[1] - b[1]) * (a[1] - b[1]) + (a[2] - b[2]) * (a[2] - b[2])

\* math.sqrt(d2) < r
SqrtLess(d2, r) == d2 < r * r

\* a detected hand's landmark list of n points
MkLmList(n, p8, p12) ==
    [i \in 1..n |-> IF i = 9 THEN p8 ELSE IF i = 13 THEN p12 ELSE Filler]

HandInputs ==
    { <<MkLmList(n, p, <<p[1] + o[1], p[2] + o[2], 0>>)>> :
          n \in LmLens, p \in TipPoints, o \in TipOffsets }

HandsInputs == { <<>> } \cup HandInputs

-----------------------------------------------------------------------------
(* DragRect, DragCircle, reset_game *)

DragRect(pos) == [posCenter |-> pos, size |-> <<100, 100>>]

rect_positions ==
    << <<200, 200>>, <<400, 200>>, <<600, 200>>, <<800, 200>>, <<1000, 200>>,
       <<200, 400>>, <<400, 400>>, <<800, 400>>, <<1000, 400>>,
       <<200, 600>>, <<600, 600>>, <<1000, 600>> >>

\* closest point of the rectangle to the circle centre
ClosestPoint(rect, circle_center) ==
    LET cx == rect.posCenter[1]
        cy == rect.posCenter[2]
        w  == rect.size[1]
        h  == rect.size[2]
        closest_x == Max(cx - (w \div 2), Min(circle_center[1], cx + (w \div 2)))
        closest_y == Max(cy - (h \div 2), Min(circle_center[2], cy + (h \div 2)))
    IN  <<closest_x, closest_y>>

\* mutant of check_collision: the comparison is <= instead of <
check_collision_Inclusive(rect, circle_center, r) ==
    Dist2(ClosestPoint(rect, circle_center), circle_center) <= r * r

\* DragRect.check_collision(self, circle_center, radius)
check_collision(rect, circle_center, r) ==
    SqrtLess(Dist2(ClosestPoint(rect, circle_center), circle_center), r)

\* mutant of update: the circle moves halfway to the cursor
update_Halfway(g, pos, c) ==
    IF g THEN <<pos[1] + ((c[1] - pos[1]) \div 2), pos[2] + ((c[2] - pos[2]) \div 2)>>
         ELSE pos

\* mutant of update: the circle moves to the cursor kept from an earlier frame
update_Stale(g, pos, c) == IF g THEN SubSeq(cursor, 1, 2) ELSE pos

\* DragCircle.update(self, cursor): the new posCenter
update(g, pos, c) == IF g THEN SubSeq(c, 1, 2) ELSE pos

\* mutant of reset_game: the flags are cleared, the circle stays where it is
reset_game_KeepsPosition(sp) ==
    [game_over |-> FALSE, game_won |-> FALSE, posCenter |-> posCenter]

\* reset_game(): the values it assigns
reset_game(sp) == [game_over |-> FALSE, game_won |-> FALSE, posCenter |-> sp]

-----------------------------------------------------------------------------
(* The main loop body, piece by piece *)

\* mutant of Interacts: the block runs whatever the game flags say
Interacts_NoStatusGuard(h) == h # <<>>

\* line 127: the interaction block runs
Interacts(h) == h # <<>> /\ ~game_over /\ ~game_won

\* line 131
EnoughLandmarks(lm) == Len(lm) >= 13

\* lines 132-133: x1, y1, x2, y2 after the guarded assignment
Fingers(lm) ==
    IF EnoughLandmarks(lm)
    THEN <<At(lm, 8)[1], At(lm, 8)[2], At(lm, 12)[1], At(lm, 12)[2]>>
    ELSE <<x1, y1, x2, y2>>

\* line 136 reads x1, y1, x2, y2: NameError when they were never assigned
FingersUnbound(lm) == ~EnoughLandmarks(lm) /\ "x1" \notin defined

\* lines 136, 138: distance < 30
Pinching(f) == SqrtLess(Dist2(<<f[3], f[4]>>, <<f[1], f[2]>>), 30)

\* line 139 reads lmList[8]: IndexError on a list of fewer than 9 points
CursorOutOfRange(lm, f) == Pinching(f) /\ Len(lm) < 9

\* lines 142-143: the cursor is over the player circle
OverCircle(c, pos, r) == SqrtLess(Dist2(c, pos), r)

\* mutant of Grab: a pinch away from the circle releases it
Grab_ReleaseOutside(pinch, c, pos, r, g) == pinch /\ OverCircle(c, pos, r)

\* lines 138-146: circle.grabbed after the pinch test
Grab(pinch, c, pos, r, g) ==
    IF pinch THEN (IF OverCircle(c, pos, r) THEN TRUE ELSE g) ELSE FALSE

\* mutant of WallHit: the flag follows the last wall of the list only
WallHit_LastOnly(rl, pos, r) == check_collision(rl[Len(rl)], pos, r)

\* lines 170-172: some wall collides
WallHit(rl, pos, r) == \E i \in 1..Len(rl) : check_collision(rl[i], pos, r)

\* mutant of FinishHit: the comparison is <= instead of <
FinishHit_Inclusive(pos, r, fp, fr) == Dist2(pos, fp) <= (r + fr) * (r + fr)

\* lines 175-176: the player circle reaches the finish circle
FinishHit(pos, r, fp, fr) == SqrtLess(Dist2(pos, fp), r + fr)

\* lines 170-177: game_over and game_won after the checks
Checks(go, gw, rl, pos, r, fp, fr) ==
    [game_over |-> (go \/ WallHit(rl, pos, r)),
     game_won  |-> (gw \/ FinishHit(pos, r, fp, fr))]

Fixed == <<rectList, start_pos, radius, finish_pos, finish_radius, probe, obs>>

\* mutant of LoopChecks: the position is written in place, into the list that
\* start_pos names too as long as posCenter has not been rebound
LoopChecks_InPlace(g, pos) ==
    /\ grabbed' = g
    /\ posCenter' = pos
    /\ start_pos' = IF posCenter = start_pos THEN pos ELSE start_pos
    /\ \E c \in {Checks(game_over, game_won, rectList, pos, radius, finish_pos,
                        finish_radius)} :
           /\ game_over' = c.game_over
           /\ game_won' = c.game_won
    /\ pc' = "key"
    /\ UNCHANGED <<key, rectList, radius, finish_pos, finish_radius, probe, obs>>

\* lines 151-195 of an iteration whose gesture handling ended with grabbed g,
\* position pos: drawing (no state) and the checks; control reaches cv2.waitKey
LoopChecks(g, pos) ==
    /\ grabbed' = g
    /\ posCenter' = pos
    /\ \E c \in {Checks(game_over, game_won, rectList, pos, radius, finish_pos,
                        finish_radius)} :
           /\ game_over' = c.game_over
           /\ game_won' = c.game_won
    /\ pc' = "key"
    /\ UNCHANGED <<key, rectList, start_pos, radius, finish_pos, finish_radius, probe,
                   obs>>

\* mutant of FrameIdle: a frame without a hand releases the circle
FrameIdle_Release(h) ==
    /\ pc = "frame"
    /\ ~Interacts(h)
    /\ hands' = h
    /\ UNCHANGED <<x1, y1, x2, y2, cursor, defined>>
    /\ grabbed' = (grabbed /\ h # <<>>)
    /\ posCenter' = posCenter
    /\ \E c \in {Checks(game_over, game_won, rectList, posCenter, radius, finish_pos,
                        finish_radius)} :
           /\ game_over' = c.game_over
           /\ game_won' = c.game_won
    /\ pc' = "key"
    /\ UNCHANGED <<key, rectList, start_pos, radius, finish_pos, finish_radius, probe,
                   obs>>

\* cap.read() fails: the iteration ends the loop before anything else is assigned
CaptureFailure ==
    /\ pc = "frame"
    /\ pc' = "no_capture"
    /\ UNCHANGED <<rectList, start_pos, posCenter, radius, grabbed, finish_pos,
                   finish_radius, game_over, game_won, hands, x1, y1, x2, y2,
                   cursor, key, defined, probe, obs>>

\* lines 117-195 of an iteration that skips the interaction block (no hand, or
\* game over / won)
FrameIdle(h) ==
    /\ pc = "frame"
    /\ ~Interacts(h)
    /\ hands' = h
    /\ UNCHANGED <<x1, y1, x2, y2, cursor, defined>>
    /\ LoopChecks(grabbed, posCenter)

\* lines 117-139 of an iteration whose interaction block raises
FrameRaise(h) ==
    /\ pc = "frame"
    /\ Interacts(h)
    /\ LET lm == h[1]
       IN  /\ FingersUnbound(lm) \/ CursorOutOfRange(lm, Fingers(lm))
           /\ pc' = IF FingersUnbound(lm) THEN "NameError" ELSE "IndexError"
           /\ hands' = h
           /\ UNCHANGED defined
    /\ UNCHANGED <<x1, y1, x2, y2, cursor, key, grabbed, posCenter, game_over, game_won>>
    /\ UNCHANGED Fixed

\* lines 117-195 of an iteration whose interaction block runs to its end
FrameInteract(h) ==
    /\ pc = "frame"
    /\ Interacts(h)
    /\ LET lm    == h[1]
           f     == Fingers(lm)
           pinch == Pinching(f)
           c     == IF pinch THEN At(lm, 8) ELSE cursor
           g     == Grab(pinch, c, posCenter, radius, grabbed)
       IN  /\ ~FingersUnbound(lm)
           /\ ~CursorOutOfRange(lm, f)
           /\ hands' = h
           /\ x1' = f[1] /\ y1' = f[2] /\ x2' = f[3] /\ y2' = f[4]
           /\ cursor' = c
           /\ defined' = defined
                           \cup (IF EnoughLandmarks(lm) THEN {"x1"} ELSE {})
                           \cup (IF pinch THEN {"cursor"} ELSE {})
           /\ LoopChecks(g, update(g, posCenter, c))

\* lines 197-201: the key is 'q', the loop ends
KeyQuit ==
    /\ pc = "key"
    /\ key' = "q"
    /\ pc' = "quit"
    /\ UNCHANGED <<posCenter, grabbed, game_over, game_won, hands, x1, y1, x2, y2,
                   cursor, defined>>
    /\ UNCHANGED Fixed

\* lines 197-201: the key is 'r', reset_game() runs
KeyReset ==
    /\ pc = "key"
    /\ key' = "r"
    /\ \E r \in {reset_game(start_pos)} :
           /\ game_over' = r.game_over
           /\ game_won' = r.game_won
           /\ posCenter' = r.posCenter
    /\ pc' = "frame"
    /\ UNCHANGED <<grabbed, hands, x1, y1, x2, y2, cursor, defined>>
    /\ UNCHANGED Fixed

\* lines 197-201: no key, or a key other than 'q' and 'r'
KeyOther ==
    /\ pc = "key"
    /\ key' = "none"
    /\ pc' = "frame"
    /\ UNCHANGED <<posCenter, grabbed, game_over, game_won, hands, x1, y1, x2, y2,
                   cursor, defined>>
    /\ UNCHANGED Fixed

InitMain ==
    /\ rectList = [i \in 1..Len(rect_positions) |-> DragRect(rect_positions[i])]
    /\ start_pos = <<640, 360>>
    /\ posCenter = <<640, 360>>
    /\ radius = 30
    /\ grabbed = FALSE
    /\ finish_pos = <<1100, 100>>
    /\ finish_radius = 40
    /\ game_over = FALSE
    /\ game_won = FALSE
    /\ hands = <<>>
    /\ x1 = 0 /\ y1 = 0 /\ x2 = 0 /\ y2 = 0
    /\ cursor = Filler
    /\ key = "none"
    /\ defined = {}
    /\ pc = "frame"

\* no isolated call is under way in the game loop
NoProbe == [rect |-> DragRect(<<0, 0>>), circle_center |-> <<0, 0>>, radius |-> 0,
            result |-> <<>>]

Init == InitMain /\ probe = NoProbe /\ obs = <<>>

Next ==
    \/ CaptureFailure
    \/ \E h \in HandsInputs : FrameIdle(h)
    \/ \E h \in HandInputs : FrameRaise(h)
    \/ \E h \in HandInputs : FrameInteract(h)
    \/ KeyQuit
    \/ KeyReset
    \/ KeyOther

Spec == Init /\ [][Next]_vars

-----------------------------------------------------------------------------
(* check_collision on its own: every wall, circle centres around it, radii *)

\* offsets of a circle centre from a wall centre, per axis: inside, on the edge,
\* and 18, 24, 25, 29, 30, 31 beyond the edge (18-24-30 is a Pythagorean triple)
ProbeOffsets == {-81, -80, -75, -68, 0, 50, 68, 74, 75, 79, 80, 81}

ProbeRadii == 29..MaxProbeRadius

ProbeInputs ==
    { [rect |-> DragRect(rect_positions[i]),
       circle_center |-> <<rect_positions[i][1] + dx, rect_positions[i][2] + dy>>,
       radius |-> r, result |-> <<>>] :
          i \in 1..Len(rect_positions), dx \in ProbeOffsets, dy \in ProbeOffsets,
          r \in ProbeRadii }

InitCollision == InitMain /\ probe \in ProbeInputs /\ obs = <<>>

CollisionCall ==
    /\ probe.result = <<>>
    /\ probe' = [probe EXCEPT
                   !.result = <<check_collision(probe.rect, probe.circle_center,
                                                probe.radius)>>]
    /\ UNCHANGED <<rectList, start_pos, posCenter, radius, grabbed, finish_pos,
                   finish_radius, game_over, game_won, hands, x1, y1, x2, y2,
                   cursor, key, defined, pc, obs>>

NextCollision == CollisionCall

SpecCollision == InitCollision /\ [][NextCollision]_vars

-----------------------------------------------------------------------------
(* Vocabulary of the properties *)

\* lines 180-185: what the screen shows
Status == IF game_over THEN "Lost" ELSE IF game_won THEN "Won" ELSE "Playing"

\* a frame was processed up to cv2.waitKey (the update of one frame)
FrameStep == pc = "frame" /\ pc' = "key"

\* the key step ran reset_game()
ResetStep == pc = "key" /\ pc' = "frame" /\ key' = "r"

\* the frame's hand, when one was detected
HasHand(h) == h # <<>>

\* the frame's hand carries landmarks 0..12
FullHand(h) == HasHand(h) /\ Len(h[1]) >= 13

\* the frame's gesture is a pinch: tips 8 and 12 nearer than 30
PinchGesture(h) ==
    /\ FullHand(h)
    /\ (h[1][13][1] - h[1][9][1]) * (h[1][13][1] - h[1][9][1])
         + (h[1][13][2] - h[1][9][2]) * (h[1][13][2] - h[1][9][2]) < 900

\* (x, y) of landmark 8 of the frame's hand
Tip8(h) == <<h[1][9][1], h[1][9][2]>>

\* squared distance from point c to the nearest point of the rectangle
RectDist2(rect, c) ==
    LET left   == rect.posCenter[1] - 50
        right  == rect.posCenter[1] + 50
        top    == rect.posCenter[2] - 50
        bottom == rect.posCenter[2] + 50
        dx == IF c[1] < left THEN left - c[1] ELSE IF c[1] > right THEN c[1] - right ELSE 0
        dy == IF c[2] < top THEN top - c[2] ELSE IF c[2] > bottom THEN c[2] - bottom ELSE 0
    IN  dx * dx + dy * dy

\* the circle at c of radius 30 overlaps some wall of the maze
TouchesWall(c) == \E i \in 1..12 : RectDist2(rectList[i], c) < 900

\* the circle at c of radius 30 overlaps the finish circle of radius 40
TouchesFinish(c) ==
    (c[1] - 1100) * (c[1] - 1100) + (c[2] - 100) * (c[2] - 100) < 4900

-----------------------------------------------------------------------------
(* The loop with one frame of the run noted down, to compare a later frame of  *)
(* the same run with it: the player state and status the frame started from,   *)
(* the landmarks it received, the pinch it derived and the player state it     *)
(* ended in.  Two prefixes of one run are two frame histories.                 *)

\* hands of this specification: none, 12 landmarks, 13 landmarks; landmark 8
\* over the player's start or away from it; pinching or at the threshold
PurityHands ==
    { <<>> } \cup
    { <<MkLmList(n, p, <<p[1] + o[1], p[2] + o[2], 0>>)>> :
          n \in {12, 13}, p \in {<<650, 370, 0>>, <<640, 500, 0>>}, o \in TipOffsets }

\* the pinch value the interaction block derived from x1, y1, x2, y2 (line 138),
\* "none" when the block did not run
DerivedPinch(ran) ==
    IF ~ran THEN "none"
    ELSE IF Pinching(<<x1, y1, x2, y2>>) THEN "pinch" ELSE "apart"

\* before a frame is read: note the player state and status it starts from
Mark ==
    /\ pc = "frame"
    /\ obs = <<>>
    /\ obs' = <<[pre |-> <<posCenter, grabbed, Status>>, hands |-> <<>>,
                 post |-> <<>>, done |-> FALSE]>>
    /\ UNCHANGED <<rectList, start_pos, posCenter, radius, grabbed, finish_pos,
                   finish_radius, game_over, game_won, hands, x1, y1, x2, y2,
                   cursor, key, defined, pc, probe>>

\* the marked frame reached cv2.waitKey
Pending == obs # <<>> /\ ~obs[1].done

\* after the marked frame: note its landmarks and how it ended
Note ==
    /\ pc = "key"
    /\ Pending
    /\ obs' = <<[obs[1] EXCEPT
                   !.hands = hands,
                   !.post = <<posCenter, grabbed,
                              DerivedPinch(obs[1].pre[3] = "Playing" /\ hands # <<>>)>>,
                   !.done = TRUE]>>
    /\ UNCHANGED <<rectList, start_pos, posCenter, radius, grabbed, finish_pos,
                   finish_radius, game_over, game_won, hands, x1, y1, x2, y2,
                   cursor, key, defined, pc, probe>>

InitPurity == Init

NextPurity ==
    \/ Mark
    \/ Note
    \/ \E h \in PurityHands : FrameIdle(h)
    \/ \E h \in PurityHands \ {<<>>} : FrameRaise(h)
    \/ \E h \in PurityHands \ {<<>>} : FrameInteract(h)
    \/ ~Pending /\ KeyOther
    \/ ~Pending /\ KeyReset

SpecPurity == InitPurity /\ [][NextPurity]_vars

-----------------------------------------------------------------------------
(* Properties *)

\* C1 (terminal freeze): from a state whose status is Lost or Won, every step
\* but a reset (a frame with any hand, pinching or not, or none; a key other
\* than 'r') leaves the player's position, its grabbed flag and the status.
C1_TerminalFreeze ==
    [][ (Status # "Playing" /\ ~ResetStep)
          => /\ posCenter' = posCenter
             /\ grabbed' = grabbed
             /\ Status' = Status ]_vars

\* C1 witness: the game is lost with the player grabbed, and the frame just
\* processed showed a pinching hand somewhere else than the player.
C1_Witness ==
    /\ Status = "Lost"
    /\ grabbed
    /\ pc = "key"
    /\ PinchGesture(hands)
    /\ Tip8(hands) # posCenter

\* C2 (reset restores the start state): right after reset_game() ran on the
\* 'r' key, position = start position, not grabbed, status Playing.
C2_ResetRestoresStart ==
    (pc = "frame" /\ key = "r")
      => (posCenter = start_pos /\ ~grabbed /\ Status = "Playing")

\* C3 (short landmark list is no gesture): a frame whose hand has fewer than
\* 13 landmarks leaves the player's position and grabbed flag as they were.
C3_ShortHandNoChange ==
    [][ (FrameStep /\ HasHand(hands') /\ Len(hands'[1]) < 13)
          => (posCenter' = posCenter /\ grabbed' = grabbed) ]_vars

\* C4 (degraded input never raises): no frame ends in an exception.
C4_NoException == pc \notin {"NameError", "IndexError"}

\* C5 (one status): game_over and game_won are never both true.
C5_FlagsExclusive == ~(game_over /\ game_won)

\* C6 (grab retention): while Playing, a grabbed player stays grabbed through
\* every frame whose hand pinches, wherever the cursor is, and its position
\* becomes the cursor; grabbed goes from true to false only in a frame, while
\* Playing, with a hand whose gesture is not a pinch.
C6_GrabRetention ==
    [][ /\ (FrameStep /\ Status = "Playing" /\ grabbed /\ PinchGesture(hands'))
           => (grabbed' /\ posCenter' = Tip8(hands'))
        /\ (grabbed /\ ~grabbed')
           => (FrameStep /\ Status = "Playing" /\ FullHand(hands')
               /\ ~PinchGesture(hands')) ]_vars

\* C6 witness: still grabbed and playing after a pinching frame whose cursor
\* (now the position) is far from the start, the only place to grab from.
C6_Witness ==
    /\ Status = "Playing"
    /\ grabbed
    /\ pc = "key"
    /\ PinchGesture(hands)
    /\ posCenter = <<640, 500>>

\* C7 (grab acquisition): grabbed goes from false to true only in a frame
\* whose gesture is a pinch with the cursor nearer than the radius to the
\* player's position; a pinch at distance >= radius from an ungrabbed player
\* leaves it ungrabbed and where it is.
C7_GrabAcquisition ==
    [][ /\ (~grabbed /\ grabbed')
           => /\ FrameStep
              /\ PinchGesture(hands')
              /\ (Tip8(hands')[1] - posCenter[1]) * (Tip8(hands')[1] - posCenter[1])
                   + (Tip8(hands')[2] - posCenter[2]) * (Tip8(hands')[2] - posCenter[2])
                   < radius * radius
        /\ (/\ FrameStep /\ ~grabbed /\ PinchGesture(hands')
            /\ (Tip8(hands')[1] - posCenter[1]) * (Tip8(hands')[1] - posCenter[1])
                 + (Tip8(hands')[2] - posCenter[2]) * (Tip8(hands')[2] - posCenter[2])
                 >= radius * radius)
           => (~grabbed' /\ posCenter' = posCenter) ]_vars

\* C8 (collision exactness): check_collision returns true exactly when the
\* distance from the circle centre to the nearest point of the rectangle is
\* strictly less than the radius.
C8_CollisionExact ==
    probe.result # <<>>
      => probe.result[1] =
           (RectDist2(probe.rect, probe.circle_center) < probe.radius * probe.radius)

\* C8 witness: a circle whose bounding box overlaps the wall at (600,600) and
\* whose centre is exactly one radius from the wall's corner does not collide.
C8_Witness ==
    /\ probe.rect.posCenter = <<600, 600>>
    /\ probe.circle_center = <<668, 674>>
    /\ probe.radius = 30
    /\ probe.result = <<FALSE>>

\* C9 (loss detection): a frame that starts Playing and ends with the player
\* circle overlapping at least one of the 12 walls ends with status Lost.
C9_LossDetected ==
    [][ (FrameStep /\ Status = "Playing" /\ TouchesWall(posCenter'))
          => Status' = "Lost" ]_vars

\* C9 witness: the player, grabbed and dragged to (640,640), has lost.
C9_Witness ==
    /\ posCenter = <<640, 640>>
    /\ grabbed
    /\ pc = "key"
    /\ Status = "Lost"

\* C10 (win detection): a frame that starts Playing and ends with the player
\* circle clear of every wall ends with status Won if the player is nearer than
\* 30 + 40 to the finish centre (1100,100), and Playing otherwise.
C10_WinDetected ==
    [][ (FrameStep /\ Status = "Playing" /\ ~TouchesWall(posCenter'))
          => Status' = (IF TouchesFinish(posCenter') THEN "Won" ELSE "Playing") ]_vars

\* C10 witness: the player dragged onto the finish centre has won.
C10_Witness ==
    /\ posCenter = <<1100, 100>>
    /\ pc = "key"
    /\ Status = "Won"
    /\ ~game_over

\* the boundary of C10 is reached: a player exactly 70 from the finish centre
\* keeps playing
C10_BoundaryReached ==
    /\ posCenter = <<1100, 170>>
    /\ grabbed
    /\ pc = "key"
    /\ Status = "Playing"

\* C11 (no hand, no change): a frame in which no hand is detected leaves the
\* player's position and grabbed flag as they were.
C11_NoHandNoChange ==
    [][ (FrameStep /\ ~HasHand(hands'))
          => (posCenter' = posCenter /\ grabbed' = grabbed) ]_vars

\* C11 witness: a player grabbed and dragged away from the start is still
\* grabbed, in play, after a frame without a hand.
C11_Witness ==
    /\ pc = "key"
    /\ ~HasHand(hands)
    /\ grabbed
    /\ Status = "Playing"
    /\ posCenter = <<640, 500>>

\* C12 (grab idempotence): while Playing, a frame that repeats the pinching
\* gesture (same landmarks, same cursor) of the frame before it, with no reset
\* in between, leaves position and grabbed flag as the first frame left them.
C12_GrabIdempotent ==
    [][ (/\ FrameStep
         /\ key = "none"
         /\ Status = "Playing"
         /\ PinchGesture(hands)
         /\ hands' = hands)
          => (posCenter' = posCenter /\ grabbed' = grabbed) ]_vars

\* C12 witness: a pinch has grabbed the player and moved it to the cursor, no
\* key followed, and the next frame is about to be read.
C12_Witness ==
    /\ pc = "frame"
    /\ key = "none"
    /\ Status = "Playing"
    /\ PinchGesture(hands)
    /\ grabbed
    /\ posCenter = Tip8(hands)
    /\ posCenter # start_pos

\* C14 (the maze is fixed): in every reachable state the wall list, the finish
\* centre and radius, the player's radius and its start position have their
\* initial values; no frame, key or reset changes them.
C14_MazeFixed ==
    /\ rectList = [i \in 1..12 |-> [posCenter |-> rect_positions[i], size |-> <<100, 100>>]]
    /\ finish_pos = <<1100, 100>>
    /\ finish_radius = 40
    /\ radius = 30
    /\ start_pos = <<640, 360>>

\* C14 witness: a reset assigned the position from start_pos, and the frame
\* after it dragged the player away.
C14_Witness ==
    /\ pc = "key"
    /\ key = "r"
    /\ grabbed
    /\ posCenter = <<650, 370>>

\* C15 (after a reset the player waits at the start): the frame that follows a
\* reset moves the player off the start position only if its gesture is a
\* pinch with the cursor nearer than the radius to the start position.
C15_StaysAtStartAfterReset ==
    [][ (FrameStep /\ key = "r" /\ posCenter' # start_pos)
          => /\ PinchGesture(hands')
             /\ (Tip8(hands')[1] - start_pos[1]) * (Tip8(hands')[1] - start_pos[1])
                  + (Tip8(hands')[2] - start_pos[2]) * (Tip8(hands')[2] - start_pos[2])
                  < radius * radius ]_vars

\* C16 (no late detection): whenever the status is Playing, the player circle
\* overlaps no wall and does not overlap the finish circle; this covers the
\* initial state, the end of every frame and the state after a reset.
C16_PlayingIsClear ==
    Status = "Playing" => (~TouchesWall(posCenter) /\ ~TouchesFinish(posCenter))

\* C16 witness: the game was lost in a wall, and a reset put the player back
\* in play.
C16_Witness ==
    /\ pc = "frame"
    /\ key = "r"
    /\ Status = "Playing"
    /\ posCenter = start_pos
    /\ cursor = <<640, 640, 0>>
    /\ Tip8(hands) = <<640, 640>>

\* the boundary of C16 is reached: in play exactly one radius from a wall corner
C16_BoundaryReached ==
    /\ pc = "key"
    /\ Status = "Playing"
    /\ posCenter = <<668, 526>>

\* C17 (no stale cursor): a frame that changes the player's position has a
\* hand with a landmark 8, and the new position is that landmark's (x, y).
C17_NoStaleCursor ==
    [][ (FrameStep /\ posCenter' # posCenter)
          => /\ HasHand(hands')
             /\ Len(hands'[1]) >= 9
             /\ posCenter' = Tip8(hands') ]_vars

\* C17 witness: the frame after a reset moved the grabbed player from the start
\* to the cursor of that frame, different from the cursor of the frame before.
C17_Witness ==
    /\ pc = "key"
    /\ key = "r"
    /\ grabbed
    /\ posCenter = <<640, 500>>
    /\ Tip8(hands) = <<640, 500>>

\* C13 (gesture interpretation is a pure function of the frame's landmarks):
\* a frame that starts from the player state and status the noted frame
\* started from, and receives the same landmark list, derives the same pinch
\* value and ends in the same player state as the noted frame did.
C13_PureGesture ==
    [][ (/\ FrameStep
         /\ obs # <<>>
         /\ obs' = obs
         /\ obs[1].done
         /\ obs[1].pre = <<posCenter, grabbed, Status>>
         /\ obs[1].hands = hands')
          => obs[1].post =
               <<posCenter', grabbed',
                 IF Status = "Playing" /\ hands' # <<>>
                 THEN (IF (x2' - x1') * (x2' - x1') + (y2' - y1') * (y2' - y1') < 900
                       THEN "pinch" ELSE "apart")
                 ELSE "none">> ]_vars

====
